---- MODULE Spec2Model ----
(***************************************************************************)
(* Model of pyarx.py: the ArxControl wrapper around the Logitech Arx       *)
(* Control native library.  The native library is a black box: every       *)
(* export returns an integer chosen nondeterministically, together with    *)
(* the code LogiArxGetLastError would then report.                         *)
(*                                                                         *)
(* Three specifications are given.  SpecCtor starts before construction    *)
(* and covers ArxControl.__init__ (path resolution, name truncation)       *)
(* followed by init().  Spec starts from the instance the __main__ block   *)
(* builds and covers every method, called by the main thread or by a       *)
(* callback or another thread, plus the `with` protocol.  SpecArgs starts  *)
(* from the same instance and covers the argument truncation of each       *)
(* method over every combination of argument lengths.                      *)
(***************************************************************************)
EXTENDS Integers, Sequences, FiniteSets, TLC

VARIABLES env, inst, ctor, phase, scope, last, wait, callback_ref

vars == <<env, inst, ctor, phase, scope, last, wait, callback_ref>>

-----------------------------------------------------------------------------
(* Bounds of the model *)

\* how far past a length limit the enumerated over-long inputs go
Over == 1
\* cap on the init() calls of callbacks and other threads that are inside
\* time.sleep(1) at the same time
MaxSleepers == 1

-----------------------------------------------------------------------------
(* class DEF: error codes *)

ERROR_CODE_SUCCESS == 0
ERROR_CODE_WRONG_PARAM_FORMAT == 1
ERROR_CODE_NULL_NOT_SUPPORTED == 2
ERROR_CODE_WRONG_FILE_PATH == 3
ERROR_CODE_SDK_NOT_INITIALIZED == 4
ERROR_CODE_SDK_INITIALIZED == 5
ERROR_CODE_CONN_BROKEN == 6
ERROR_CODE_FAILED_CREATE_THREAD == 7
ERROR_CODE_FAILED_COPY_MEMORY == 8

\* the length every text[:128] slice in the file uses
SliceLen == 128
\* the limit the docstrings give for filenames, file paths
DocLimit256 == 256

-----------------------------------------------------------------------------
(* Strings are sequences of characters (small naturals). *)

Text(n) == [i \in 1..n |-> i % 10]

Has(seq, x) == \E i \in 1..Len(seq) : seq[i] = x

Occurrences(seq, x) == Cardinality({i \in 1..Len(seq) : seq[i] = x})

Min(a, b) == IF a < b THEN a ELSE b

\* Python's text[:n]
Slice(text, n) == SubSeq(text, 1, Min(Len(text), n))

\* inputs for arguments the wrapper truncates: at the slice length, just
\* over it (still within 256), and over 256
Texts == {Text(SliceLen), Text(SliceLen + Over), Text(DocLimit256 + Over)}
\* the one over-long input used where argument lengths are not the subject
LongTexts == {Text(SliceLen + Over)}
\* inputs for the constructor's two names: the lengths of 'foo.bar' and
\* 'Test Friendly Name', the slice length, and just over it
Names == {Text(7), Text(18), Text(SliceLen), Text(SliceLen + Over)}
\* inputs for arguments passed through untouched
Mimes == {Text(9)}
Payloads == {Text(DocLimit256 + Over)}
\* block sizes and addresses; all fit a C int, which c_int leaves unchanged
Sizes == {16}
Pointers == {4096}

-----------------------------------------------------------------------------
(* Log records *)

NoText == Text(0)

TruncWarning(limit, text) ==
    [msg |-> "Truncating too long text", limit |-> limit, text |-> text,
     func |-> "", code |-> 0]

ErrWarning(func_name, last_error) ==
    [msg |-> "Got error from arx control", limit |-> 0, text |-> NoText,
     func |-> func_name, code |-> last_error]

-----------------------------------------------------------------------------
(* _text_limit(text, limit=128) *)

\* the value _text_limit returns
text_limit(text, limit) == Slice(text, SliceLen)

\* the warnings _text_limit logs
text_limit_log(text, limit) ==
    IF Len(text) > SliceLen THEN <<TruncWarning(limit, text)>> ELSE <<>>

-----------------------------------------------------------------------------
(* The native library: what an export returns and the last-error code it   *)
(* leaves behind.                                                          *)

\* the codes enumerated for a failing export: the two the wrapper singles
\* out, their neighbours, and the lowest code
FailureCodes ==
    {ERROR_CODE_SUCCESS, ERROR_CODE_SDK_NOT_INITIALIZED,
     ERROR_CODE_SDK_INITIALIZED, ERROR_CODE_CONN_BROKEN,
     ERROR_CODE_FAILED_CREATE_THREAD}

NativeOutcomes ==
    {[ret |-> 1, err |-> ERROR_CODE_SUCCESS]} \cup
    {[ret |-> 0, err |-> e] : e \in FailureCodes}

-----------------------------------------------------------------------------
(* Exports of the native library *)

GetLastErrorExport == "LogiArxGetLastError"
ShutdownExport == "LogiArxShutdown"

\* methods whose body ends in self._call(...)
Routed == {"init", "add_file_as", "add_content_as", "set_tag_property_by_id",
           "set_tag_propery_by_class", "set_tag_content_by_id",
           "set_tag_content_by_class"}
\* methods whose body ends in self._arx_dll.<export>(...)
Unrouted == {"add_string_as", "set_index"}
Forwarding == Routed \cup Unrouted

ExportOf(method) ==
    CASE method = "init" -> "LogiArxInit"
      [] method = "add_string_as" -> "LogiArxAddUTF8StringAs"
      [] method = "set_index" -> "LogiArxSetIndex"
      [] method = "add_file_as" -> "LogiArxAddFileAs"
      [] method = "add_content_as" -> "LogiArxAddContentAs"
      [] method = "set_tag_property_by_id" -> "LogiArxSetTagPropertyById"
      [] method = "set_tag_propery_by_class" -> "LogiArxSetTagsPropertyByClass"
      [] method = "set_tag_content_by_id" -> "LogiArxSetTagContentById"
      [] method = "set_tag_content_by_class" -> "LogiArxSetTagsContentByClass"
      [] method = "get_last_error" -> GetLastErrorExport
      [] OTHER -> ShutdownExport

-----------------------------------------------------------------------------
(* How a Python call ends: it returns a value or raises an exception.      *)
(* exports: the native exports invoked, in order.  warnings: what was      *)
(* logged at WARNING level, in order.                                      *)

Returns(v, exports, warnings) ==
    [kind |-> "return", value |-> v, exc |-> "",
     exports |-> exports, warnings |-> warnings]

Raises(e, exports, warnings) ==
    [kind |-> "raise", value |-> 0, exc |-> e,
     exports |-> exports, warnings |-> warnings]

\* _call without the CONN_BROKEN branch: the failure is logged and returned
call_no_escalation(func_name, nat) ==
    IF nat.ret = 0
    THEN IF nat.err = ERROR_CODE_SDK_INITIALIZED
         THEN Returns(nat.ret, <<func_name, GetLastErrorExport>>, <<>>)
         ELSE Returns(nat.ret, <<func_name, GetLastErrorExport>>,
                      <<ErrWarning(func_name, nat.err)>>)
    ELSE Returns(nat.ret, <<func_name>>, <<>>)

\* _call behind a lifecycle guard: once the session was shut down or broke,
\* the wrapper answers failure itself and leaves the library alone
call_guarded(func_name, nat) ==
    IF phase \in {"shutdown", "broken"}
    THEN Returns(0, <<>>, <<>>)
    ELSE IF nat.ret = 0
    THEN IF nat.err = ERROR_CODE_SDK_INITIALIZED
         THEN Returns(nat.ret, <<func_name, GetLastErrorExport>>, <<>>)
         ELSE IF nat.err = ERROR_CODE_CONN_BROKEN
              THEN Raises("ArxControlShutdownError",
                          <<func_name, GetLastErrorExport, ShutdownExport>>,
                          <<ErrWarning(func_name, nat.err)>>)
              ELSE Returns(nat.ret, <<func_name, GetLastErrorExport>>,
                           <<ErrWarning(func_name, nat.err)>>)
    ELSE Returns(nat.ret, <<func_name>>, <<>>)

\* ArxControl._call: the named export answered nat
call(func_name, nat) ==
    IF nat.ret = 0
    THEN IF nat.err = ERROR_CODE_SDK_INITIALIZED
         THEN Returns(nat.ret, <<func_name, GetLastErrorExport>>, <<>>)
         ELSE IF nat.err = ERROR_CODE_CONN_BROKEN
              THEN Raises("ArxControlShutdownError",
                          <<func_name, GetLastErrorExport, ShutdownExport>>,
                          <<ErrWarning(func_name, nat.err)>>)
              ELSE Returns(nat.ret, <<func_name, GetLastErrorExport>>,
                           <<ErrWarning(func_name, nat.err)>>)
    ELSE Returns(nat.ret, <<func_name>>, <<>>)

\* return self._arx_dll.<export>(...): the raw native return, nothing else
direct(func_name, nat) == Returns(nat.ret, <<func_name>>, <<>>)

-----------------------------------------------------------------------------
(* The environment ArxControl.__init__ looks at, and path resolution *)

None == "None"
CustomDll == "C:/custom/LogitechGArxControl.dll"
AbsentDll == "C:/absent/LogitechGArxControl.dll"

\* values of the dll_path argument: not given, empty, a path
Overrides == {None, "", CustomDll, AbsentDll}

\* what the file system holds at a path: nothing, something that exists
\* but is no loadable library (another file, a directory), or the library
FileKinds == {"absent", "not a library", "library"}

Envs == [ProgramW6432 : BOOLEAN, ProgramFiles : BOOLEAN,
         bits : {"32bit", "64bit"},
         default_at : FileKinds, custom_at : FileKinds]

\* os.path.join(program_files_path, 'Logitech Gaming Software', 'SDK',
\*              'Arx Control', system_arch, 'LogitechGArxControl.dll')
DefaultPath(e) ==
    LET system_arch == IF e.bits = "32bit" THEN "x86" ELSE "x64"
        from_w6432 == e.ProgramW6432
    IN CASE from_w6432 /\ system_arch = "x86" ->
              "%ProgramW6432%/Logitech Gaming Software/SDK/Arx Control/x86/LogitechGArxControl.dll"
         [] from_w6432 /\ system_arch = "x64" ->
              "%ProgramW6432%/Logitech Gaming Software/SDK/Arx Control/x64/LogitechGArxControl.dll"
         [] ~from_w6432 /\ system_arch = "x86" ->
              "%ProgramFiles%/Logitech Gaming Software/SDK/Arx Control/x86/LogitechGArxControl.dll"
         [] OTHER ->
              "%ProgramFiles%/Logitech Gaming Software/SDK/Arx Control/x64/LogitechGArxControl.dll"

\* what environment e holds at path
file_at(path, e) ==
    IF path = CustomDll THEN e.custom_at
    ELSE IF path = DefaultPath(e) THEN e.default_at
    ELSE "absent"

\* os.path.exists(path) in environment e
path_exists(path, e) == file_at(path, e) # "absent"

\* ctypes.cdll.LoadLibrary(path): the exception it raises ("" when the
\* library is loaded)
LoadLibrary(path, e) ==
    IF file_at(path, e) = "library" THEN "" ELSE "OSError"

\* get_default_arx_dll(): os.environ['ProgramFiles'] raises KeyError when
\* neither variable is set
get_default_arx_dll(e) ==
    IF ~e.ProgramW6432 /\ ~e.ProgramFiles
    THEN [exc |-> "KeyError", value |-> None]
    ELSE IF path_exists(DefaultPath(e), e)
         THEN [exc |-> "", value |-> DefaultPath(e)]
         ELSE [exc |-> "", value |-> None]

\* Python truthiness of a str|None value
Falsy(v) == v \in {None, ""}

\* self._app_name = app_name[:128]: the stored value, and what is logged
stored_name(name) == Slice(name, SliceLen)
stored_name_log(name) == <<>>

NoInstance ==
    [constructed |-> FALSE, app_name |-> NoText, friendly_name |-> NoText,
     arx_dll |-> None]

\* ArxControl.__init__(app_name, friendly_name, callback, dll_path) run in
\* environment e: the instance (if any) and the record of the call
construct(app_name, friendly_name, dll_path, e) ==
    LET use_default == Falsy(dll_path)
        found == get_default_arx_dll(e)
        resolved == IF use_default THEN found.value ELSE dll_path
        exc == IF use_default /\ found.exc # ""
               THEN found.exc
               ELSE IF Falsy(resolved) \/ ~path_exists(resolved, e)
                    THEN "FileNotFoundError"
                    ELSE LoadLibrary(resolved, e)
    IN [inst |-> IF exc = ""
                 THEN [constructed |-> TRUE,
                       app_name |-> stored_name(app_name),
                       friendly_name |-> stored_name(friendly_name),
                       arx_dll |-> resolved]
                 ELSE NoInstance,
        ctor |-> [called |-> TRUE, app_name |-> app_name,
                  friendly_name |-> friendly_name, dll_path |-> dll_path,
                  exc |-> exc,
                  loaded |-> IF exc = "" THEN resolved ELSE None,
                  warnings |-> stored_name_log(app_name) \o
                               stored_name_log(friendly_name)]]

NoCtor ==
    [called |-> FALSE, app_name |-> NoText, friendly_name |-> NoText,
     dll_path |-> None, exc |-> "", loaded |-> None, warnings |-> <<>>]


-----------------------------------------------------------------------------
(* State                                                                   *)
(*   env    the process environment and file system, fixed                 *)
(*   inst   the ArxControl instance: _app_name, _friendly_name, _arx_dll   *)
(*   ctor   the constructor call that was made and how it ended            *)
(*   last   the most recent method call whose native part has run:         *)
(*          arguments given, arguments handed to the native export, the    *)
(*          native outcome, how the call ends, exports invoked, warnings   *)
(*          logged, whether it goes on into time.sleep(1); or the most     *)
(*          recent callback delivery and where it landed (target)          *)
(*   scope  the `with` statement around the instance                       *)
(*   wait   the init() calls that are inside time.sleep(1): the one of the *)
(*          main thread (made directly or by __enter__), and how many of   *)
(*          callbacks and other threads                                    *)
(*   callback_ref  the CFUNCTYPE object of line 104 behind the pointer the *)
(*          library holds: "none" no pointer held, "main" / "other" kept   *)
(*          alive by that caller's init() frame, "freed" the frame is gone *)
(*   phase  history of the session, kept for stating properties only; the  *)
(*          class has no such field                                        *)

NoCall ==
    [method |-> "", input |-> <<>>, passed |-> <<>>, aux |-> <<>>,
     ret |-> 0, err |-> 0, kind |-> "", value |-> 0, exc |-> "",
     exports |-> <<>>, warnings |-> <<>>, slept |-> FALSE, target |-> ""]

CallRecord(method, input, passed, aux, pre_warnings, nat, res, slept) ==
    [method |-> method, input |-> input, passed |-> passed, aux |-> aux,
     ret |-> nat.ret, err |-> nat.err,
     kind |-> res.kind, value |-> res.value, exc |-> res.exc,
     exports |-> res.exports, warnings |-> pre_warnings \o res.warnings,
     slept |-> slept, target |-> ""]

\* no init() is in its wait
NoWait == [main |-> "", others |-> 0]

NoScope ==
    [st |-> "outside", init_kind |-> "", init_value |-> 0,
     pending |-> "", propagated |-> "", body_ran |-> FALSE,
     raise_shutdowns |-> 0, exit_shutdowns |-> 0]

\* the environment of the __main__ block; Init is the instance it builds,
\* ArxControl('foo.bar', 'Test Friendly Name', callback)
MainEnv ==
    [ProgramW6432 |-> TRUE, ProgramFiles |-> TRUE, bits |-> "64bit",
     default_at |-> "library", custom_at |-> "absent"]

Init ==
    /\ env = MainEnv
    /\ inst = construct(Text(7), Text(18), None, MainEnv).inst
    /\ ctor = construct(Text(7), Text(18), None, MainEnv).ctor
    /\ phase = "constructed"
    /\ scope = NoScope
    /\ last = NoCall
    /\ wait = NoWait
    /\ callback_ref = "none"

InitCtor ==
    /\ env \in Envs
    /\ inst = NoInstance
    /\ ctor = NoCtor
    /\ phase = "absent"
    /\ scope = NoScope
    /\ last = NoCall
    /\ wait = NoWait
    /\ callback_ref = "none"

-----------------------------------------------------------------------------
(* Who calls, and what a method call does to the surrounding `with` block, *)
(* to the callback object and to the session history                       *)

\* a method is called by the main thread (the one that runs the `with`
\* block) or by a callback or another thread
Callers == {"main", "other"}

\* the process is alive (a callback delivered through a freed pointer may
\* have ended it)
Alive == phase # "crashed"

\* the main thread is between statements: not inside init()'s wait, and not
\* carrying an exception from the body to __exit__
MainRuns == wait.main = "" /\ scope.st # "unwinding"

\* who can make a call now.  The class checks nothing before a call: any
\* method can be called on a constructed instance in any state of it
CanCall(who) ==
    /\ inst.constructed
    /\ Alive
    /\ who = "main" => MainRuns

\* an exception leaving a method the main thread called from the body
\* unwinds the block; one raised in a callback or another thread stays in
\* that thread.  raise_shutdowns: the shutdowns the raising call made
Propagate(who, res) ==
    IF who = "main" /\ scope.st = "body" /\ res.kind = "raise"
    THEN [scope EXCEPT !.st = "unwinding", !.pending = res.exc,
                       !.raise_shutdowns =
                           Occurrences(res.exports, ShutdownExport)]
    ELSE scope

\* LogiArxShutdown makes the library drop the callback pointer
CallbackAfter(res) ==
    IF Has(res.exports, ShutdownExport) THEN "none" ELSE callback_ref

\* a LogiArxInit that succeeded holds the pointer to the caller's
\* callback_ref, alive while that init() runs
CallbackAfterInit(who, res) ==
    IF Has(res.exports, ShutdownExport) THEN "none"
    ELSE IF res.kind = "return" /\ res.value # 0 THEN who
    ELSE callback_ref

PhaseAfter(res) == IF res.kind = "raise" THEN "broken" ELSE phase

PhaseAfterInit(res) ==
    IF res.kind = "raise" THEN "broken"
    ELSE IF res.value # 0 THEN "inited" ELSE "init_failed"

-----------------------------------------------------------------------------
(* Actions *)

\* ArxControl(app_name, friendly_name, callback, dll_path)
Construct(app_name, friendly_name, dll_path) ==
    /\ ~ctor.called
    /\ inst' = construct(app_name, friendly_name, dll_path, env).inst
    /\ ctor' = construct(app_name, friendly_name, dll_path, env).ctor
    /\ phase' = IF inst'.constructed THEN "constructed" ELSE "absent"
    /\ UNCHANGED <<env, scope, last, wait, callback_ref>>

\* init() up to time.sleep(1): the call ends here unless ret is truthy.
\* Callbacks and other threads call it too, also while another init() is
\* in its wait.  MaxSleepers caps how many of them are inside the wait at
\* once: it cuts only a call that would go on to sleep, never one that
\* fails and ends at once
init(who, nat) ==
    /\ CanCall(who)
    /\ LET res == call("LogiArxInit", nat)
           slept == res.kind = "return" /\ res.value # 0
       IN /\ (who = "other" /\ slept) => wait.others < MaxSleepers
          /\ last' = CallRecord("init",
                        <<inst.app_name, inst.friendly_name>>,
                        <<inst.app_name, inst.friendly_name>>, <<>>, <<>>,
                        nat, res, slept)
          /\ wait' = IF ~slept THEN wait
                     ELSE IF who = "main" THEN [wait EXCEPT !.main = "init"]
                     ELSE [wait EXCEPT !.others = @ + 1]
          /\ scope' = Propagate(who, res)
          /\ callback_ref' = CallbackAfterInit(who, res)
          /\ phase' = PhaseAfterInit(res)
    /\ UNCHANGED <<env, inst, ctor>>

\* init() after time.sleep(1): return ret; the frame's callback_ref goes.
\* When several other threads wait, the one returning may or may not be
\* the one whose object the library points to
init_return(who) ==
    /\ Alive
    /\ IF who = "main" THEN wait.main = "init" ELSE wait.others > 0
    /\ wait' = IF who = "main" THEN [wait EXCEPT !.main = ""]
               ELSE [wait EXCEPT !.others = @ - 1]
    /\ callback_ref' \in
           IF callback_ref # who THEN {callback_ref}
           ELSE IF who = "other" /\ wait.others > 1 THEN {"freed", "other"}
           ELSE {"freed"}
    /\ UNCHANGED <<env, inst, ctor, scope, phase, last>>

add_string_as(who, string, filename, mime_type, nat) ==
    /\ CanCall(who)
    /\ LET res == direct("LogiArxAddUTF8StringAs", nat)
       IN /\ last' = CallRecord("add_string_as",
                        <<string, filename, mime_type>>,
                        <<string, text_limit(filename, 256), mime_type>>,
                        <<>>, text_limit_log(filename, 256), nat, res, FALSE)
          /\ scope' = Propagate(who, res)
          /\ callback_ref' = CallbackAfter(res)
          /\ phase' = PhaseAfter(res)
    /\ UNCHANGED <<env, inst, ctor, wait>>

set_index(who, filename, nat) ==
    /\ CanCall(who)
    /\ LET res == direct("LogiArxSetIndex", nat)
       IN /\ last' = CallRecord("set_index", <<filename>>,
                        <<text_limit(filename, 256)>>,
                        <<>>, text_limit_log(filename, 256), nat, res, FALSE)
          /\ scope' = Propagate(who, res)
          /\ callback_ref' = CallbackAfter(res)
          /\ phase' = PhaseAfter(res)
    /\ UNCHANGED <<env, inst, ctor, wait>>

\* get_last_error(): the native last-error code, whatever it is
get_last_error(who, code) ==
    /\ CanCall(who)
    /\ last' = CallRecord("get_last_error", <<>>, <<>>, <<>>, <<>>,
                  [ret |-> code, err |-> code],
                  Returns(code, <<GetLastErrorExport>>, <<>>), FALSE)
    /\ UNCHANGED <<env, inst, ctor, scope, phase, wait, callback_ref>>

add_file_as(who, filepath, filename, mime_type, nat) ==
    /\ CanCall(who)
    /\ LET res == call("LogiArxAddFileAs", nat)
       IN /\ last' = CallRecord("add_file_as",
                        <<filepath, filename, mime_type>>,
                        <<text_limit(filepath, 256), text_limit(filename, 256),
                          mime_type>>,
                        <<>>,
                        text_limit_log(filepath, 256) \o
                        text_limit_log(filename, 256), nat, res, FALSE)
          /\ scope' = Propagate(who, res)
          /\ callback_ref' = CallbackAfter(res)
          /\ phase' = PhaseAfter(res)
    /\ UNCHANGED <<env, inst, ctor, wait>>

\* aux holds c_void_p(content) and c_int(size)
add_content_as(who, content, size, filename, mime_type, nat) ==
    /\ CanCall(who)
    /\ LET res == call("LogiArxAddContentAs", nat)
       IN /\ last' = CallRecord("add_content_as",
                        <<filename, mime_type>>,
                        <<text_limit(filename, 256), mime_type>>,
                        <<content, size>>,
                        text_limit_log(filename, 256), nat, res, FALSE)
          /\ scope' = Propagate(who, res)
          /\ callback_ref' = CallbackAfter(res)
          /\ phase' = PhaseAfter(res)
    /\ UNCHANGED <<env, inst, ctor, wait>>

set_tag_property_by_id(who, tag_id, prop, new_value, nat) ==
    /\ CanCall(who)
    /\ LET res == call("LogiArxSetTagPropertyById", nat)
       IN /\ last' = CallRecord("set_tag_property_by_id",
                        <<tag_id, prop, new_value>>,
                        <<text_limit(tag_id, 128), text_limit(prop, 128),
                          text_limit(new_value, 256)>>,
                        <<>>,
                        text_limit_log(tag_id, 128) \o
                        text_limit_log(prop, 128) \o
                        text_limit_log(new_value, 256), nat, res, FALSE)
          /\ scope' = Propagate(who, res)
          /\ callback_ref' = CallbackAfter(res)
          /\ phase' = PhaseAfter(res)
    /\ UNCHANGED <<env, inst, ctor, wait>>

set_tag_propery_by_class(who, tag_class, prop, new_value, nat) ==
    /\ CanCall(who)
    /\ LET res == call("LogiArxSetTagsPropertyByClass", nat)
       IN /\ last' = CallRecord("set_tag_propery_by_class",
                        <<tag_class, prop, new_value>>,
                        <<text_limit(tag_class, 128), text_limit(prop, 128),
                          text_limit(new_value, 256)>>,
                        <<>>,
                        text_limit_log(tag_class, 128) \o
                        text_limit_log(prop, 128) \o
                        text_limit_log(new_value, 256), nat, res, FALSE)
          /\ scope' = Propagate(who, res)
          /\ callback_ref' = CallbackAfter(res)
          /\ phase' = PhaseAfter(res)
    /\ UNCHANGED <<env, inst, ctor, wait>>

set_tag_content_by_id(who, tag_id, new_content, nat) ==
    /\ CanCall(who)
    /\ LET res == call("LogiArxSetTagContentById", nat)
       IN /\ last' = CallRecord("set_tag_content_by_id",
                        <<tag_id, new_content>>,
                        <<text_limit(tag_id, 128), new_content>>,
                        <<>>, text_limit_log(tag_id, 128), nat, res, FALSE)
          /\ scope' = Propagate(who, res)
          /\ callback_ref' = CallbackAfter(res)
          /\ phase' = PhaseAfter(res)
    /\ UNCHANGED <<env, inst, ctor, wait>>

set_tag_content_by_class(who, tag_class, new_content, nat) ==
    /\ CanCall(who)
    /\ LET res == call("LogiArxSetTagsContentByClass", nat)
       IN /\ last' = CallRecord("set_tag_content_by_class",
                        <<tag_class, new_content>>,
                        <<text_limit(tag_class, 128), new_content>>,
                        <<>>, text_limit_log(tag_class, 128), nat, res, FALSE)
          /\ scope' = Propagate(who, res)
          /\ callback_ref' = CallbackAfter(res)
          /\ phase' = PhaseAfter(res)
    /\ UNCHANGED <<env, inst, ctor, wait>>

\* shutdown(): LogiArxShutdown, its result dropped
shutdown(who) ==
    /\ CanCall(who)
    /\ LET res == Returns(0, <<ShutdownExport>>, <<>>)
       IN /\ last' = CallRecord("shutdown", <<>>, <<>>, <<>>, <<>>,
                        [ret |-> 0, err |-> 0], res, FALSE)
          /\ callback_ref' = CallbackAfter(res)
    /\ phase' = "shutdown"
    /\ UNCHANGED <<env, inst, ctor, scope, wait>>

\* __enter__ without the test of init()'s result
enter_raises_unchecked(res) ==
    IF res.kind = "raise" THEN res.exc ELSE ""

\* __enter__: the exception it raises for the way init() ended ("" when it
\* returns self)
enter_raises(res) ==
    IF res.kind = "raise" THEN res.exc
    ELSE IF res.value = 0 THEN "ArxControlError"
    ELSE ""

\* `with instance as x:` in the main thread, up to time.sleep(1) inside
\* init(); __enter__ ends here unless ret is truthy.  A block can be
\* entered again after one was left; blocks are not nested
enter(nat) ==
    /\ CanCall("main")
    /\ scope.st \in {"outside", "exited", "enter_failed"}
    /\ LET res == call("LogiArxInit", nat)
           slept == res.kind = "return" /\ res.value # 0
           exc == enter_raises(res)
       IN /\ last' = CallRecord("init",
                        <<inst.app_name, inst.friendly_name>>,
                        <<inst.app_name, inst.friendly_name>>, <<>>, <<>>,
                        nat, res, slept)
          /\ wait' = IF slept THEN [wait EXCEPT !.main = "enter"] ELSE wait
          /\ callback_ref' = CallbackAfterInit("main", res)
          /\ phase' = PhaseAfterInit(res)
          /\ scope' = [st |-> IF slept THEN "entering"
                              ELSE IF exc = "" THEN "body"
                              ELSE "enter_failed",
                       init_kind |-> res.kind, init_value |-> res.value,
                       pending |-> "",
                       propagated |-> IF slept THEN "" ELSE exc,
                       body_ran |-> ~slept /\ exc = "",
                       raise_shutdowns |-> 0,
                       exit_shutdowns |-> 0]
    /\ UNCHANGED <<env, inst, ctor>>

\* __enter__ after the wait: init() returns ret, the test of it, return self
enter_return ==
    /\ Alive
    /\ wait.main = "enter"
    /\ LET exc == enter_raises([kind |-> scope.init_kind,
                                value |-> scope.init_value, exc |-> ""])
       IN scope' = [scope EXCEPT
                      !.st = IF exc = "" THEN "body" ELSE "enter_failed",
                      !.propagated = exc,
                      !.body_ran = exc = ""]
    /\ wait' = [wait EXCEPT !.main = ""]
    /\ callback_ref' = IF callback_ref = "main" THEN "freed" ELSE callback_ref
    /\ UNCHANGED <<env, inst, ctor, phase, last>>

\* where a callback invocation by the library can land.  Line 104 hands the
\* library a pointer into a CFUNCTYPE object that lives only until init()
\* returns: during the wait the registered callback runs; afterwards the
\* pointer dangles and the call reaches the callback, another object in the
\* freed memory, or ends the process
DeliveryTargets ==
    IF callback_ref \in Callers
    THEN {"registered callback"}
    ELSE {"registered callback", "other closure", "crash"}

\* the library invokes the callback pointer LogiArxInit was given
deliver(target) ==
    /\ inst.constructed
    /\ Alive
    /\ callback_ref # "none"
    /\ target \in DeliveryTargets
    /\ last' = [NoCall EXCEPT !.method = "callback", !.target = target]
    /\ phase' = IF target = "crash" THEN "crashed" ELSE phase
    /\ UNCHANGED <<env, inst, ctor, scope, wait, callback_ref>>

\* the body of the `with` block raises something of its own
BodyExceptions == {"EOFError"}

body_raise(e) ==
    /\ CanCall("main")
    /\ scope.st = "body"
    /\ scope' = [scope EXCEPT !.st = "unwinding", !.pending = e]
    /\ UNCHANGED <<env, inst, ctor, phase, last, wait, callback_ref>>

\* __exit__ shutting down only after a body that ended normally
exit_exports_on_success(exc_type) ==
    IF exc_type = "" THEN <<ShutdownExport>> ELSE <<>>

\* __exit__(exc_type, exc_val, exc_tb): the exports it invokes
exit_exports(exc_type) == <<ShutdownExport>>

\* __exit__ returns None, so the exception it was given goes on
exit_suppresses(exc_type) == FALSE

\* the main thread leaves the `with` block, normally or with an exception
\* pending
exit ==
    /\ Alive
    /\ wait.main = ""
    /\ scope.st \in {"body", "unwinding"}
    /\ LET res == Returns(0, exit_exports(scope.pending), <<>>)
       IN /\ last' = CallRecord("__exit__", <<>>, <<>>, <<>>, <<>>,
                        [ret |-> 0, err |-> 0], res, FALSE)
          /\ scope' = [scope EXCEPT
                         !.st = "exited",
                         !.exit_shutdowns =
                             Occurrences(res.exports, ShutdownExport),
                         !.propagated =
                             IF exit_suppresses(scope.pending)
                             THEN "" ELSE scope.pending]
          /\ callback_ref' = CallbackAfter(res)
          /\ phase' = IF Has(res.exports, ShutdownExport)
                      THEN "shutdown" ELSE phase
    /\ UNCHANGED <<env, inst, ctor, wait>>

-----------------------------------------------------------------------------
(* Specifications *)

\* Spec: the whole life of the instance, every call with an over-long text
Next ==
    \/ \E who \in Callers, nat \in NativeOutcomes : init(who, nat)
    \/ \E who \in Callers : init_return(who)
    \/ \E who \in Callers, s \in Payloads, f \in LongTexts, m \in Mimes,
          nat \in NativeOutcomes : add_string_as(who, s, f, m, nat)
    \/ \E who \in Callers, f \in LongTexts, nat \in NativeOutcomes :
           set_index(who, f, nat)
    \/ \E who \in Callers, code \in FailureCodes : get_last_error(who, code)
    \/ \E who \in Callers, p \in LongTexts, f \in LongTexts, m \in Mimes,
          nat \in NativeOutcomes : add_file_as(who, p, f, m, nat)
    \/ \E who \in Callers, c \in Pointers, n \in Sizes, f \in LongTexts,
          m \in Mimes, nat \in NativeOutcomes :
           add_content_as(who, c, n, f, m, nat)
    \/ \E who \in Callers, t \in LongTexts, p \in LongTexts, v \in Payloads,
          nat \in NativeOutcomes : set_tag_property_by_id(who, t, p, v, nat)
    \/ \E who \in Callers, t \in LongTexts, p \in LongTexts, v \in Payloads,
          nat \in NativeOutcomes : set_tag_propery_by_class(who, t, p, v, nat)
    \/ \E who \in Callers, t \in LongTexts, c \in Payloads,
          nat \in NativeOutcomes : set_tag_content_by_id(who, t, c, nat)
    \/ \E who \in Callers, t \in LongTexts, c \in Payloads,
          nat \in NativeOutcomes : set_tag_content_by_class(who, t, c, nat)
    \/ \E who \in Callers : shutdown(who)
    \/ \E nat \in NativeOutcomes : enter(nat)
    \/ enter_return
    \/ \E t \in {"registered callback", "other closure", "crash"} :
           deliver(t)
    \/ \E e \in BodyExceptions : body_raise(e)
    \/ exit

Spec == Init /\ [][Next]_vars

\* SpecArgs: the methods that truncate arguments, called by the main
\* thread with every combination of argument lengths
NextArgs ==
    \/ \E s \in Payloads, f \in Texts, m \in Mimes, nat \in NativeOutcomes :
           add_string_as("main", s, f, m, nat)
    \/ \E f \in Texts, nat \in NativeOutcomes : set_index("main", f, nat)
    \/ \E p \in Texts, f \in Texts, m \in Mimes, nat \in NativeOutcomes :
           add_file_as("main", p, f, m, nat)
    \/ \E c \in Pointers, n \in Sizes, f \in Texts, m \in Mimes,
          nat \in NativeOutcomes : add_content_as("main", c, n, f, m, nat)
    \/ \E t \in Texts, p \in Texts, v \in Payloads, nat \in NativeOutcomes :
           set_tag_property_by_id("main", t, p, v, nat)
    \/ \E t \in Texts, p \in Texts, v \in Payloads, nat \in NativeOutcomes :
           set_tag_propery_by_class("main", t, p, v, nat)
    \/ \E t \in Texts, c \in Payloads, nat \in NativeOutcomes :
           set_tag_content_by_id("main", t, c, nat)
    \/ \E t \in Texts, c \in Payloads, nat \in NativeOutcomes :
           set_tag_content_by_class("main", t, c, nat)

SpecArgs == Init /\ [][NextArgs]_vars

\* SpecCtor: construction in every environment, then init()
NextCtor ==
    \/ \E a \in Names, f \in Names, d \in Overrides : Construct(a, f, d)
    \/ \E who \in Callers, nat \in NativeOutcomes : init(who, nat)
    \/ \E who \in Callers : init_return(who)

SpecCtor == InitCtor /\ [][NextCtor]_vars

-----------------------------------------------------------------------------
(* Properties *)

\* a truncation warning was logged for text
Warned(text) ==
    \E i \in 1..Len(last.warnings) :
        /\ last.warnings[i].msg = "Truncating too long text"
        /\ last.warnings[i].text = text

\* a warning carrying the error code was logged
ErrorLogged(code) ==
    \E i \in 1..Len(last.warnings) :
        /\ last.warnings[i].msg = "Got error from arx control"
        /\ last.warnings[i].code = code

\* the last call was a forwarding call whose export failed with code
FailedWith(methods, codes) ==
    /\ last.method \in methods
    /\ last.ret = 0
    /\ last.err \in codes

\* C1: a call routed through _call whose export returns zero with last
\* error CONN_BROKEN invokes the native shutdown export before it ends and
\* ends by raising ArxControlShutdownError
C1_ConnBrokenShutsDownAndRaises ==
    FailedWith(Routed, {ERROR_CODE_CONN_BROKEN}) =>
        /\ last.kind = "raise"
        /\ last.exc = "ArxControlShutdownError"
        /\ last.exports =
               <<ExportOf(last.method), GetLastErrorExport, ShutdownExport>>

C1_Witness ==
    /\ FailedWith({"add_file_as"}, {ERROR_CODE_CONN_BROKEN})
    /\ last.kind = "raise"
    /\ Has(last.exports, ShutdownExport)

\* C2: a forwarding call whose export returns zero with last error
\* SDK_INITIALIZED reports success (a truthy result); init() then reports
\* success and __enter__ does not raise
C2_SdkInitializedReportsSuccess ==
    /\ FailedWith(Forwarding, {ERROR_CODE_SDK_INITIALIZED}) =>
           (last.kind = "return" /\ last.value # 0)
    /\ ~ ( /\ scope.st = "enter_failed"
           /\ FailedWith({"init"}, {ERROR_CODE_SDK_INITIALIZED}) )

\* C3: add_string_as and set_index follow the call policy: on a zero return
\* the last error is queried, and on CONN_BROKEN shutdown is invoked and
\* ArxControlShutdownError raised
C3_UnroutedFollowPolicy ==
    FailedWith(Unrouted, FailureCodes) =>
        /\ Has(last.exports, GetLastErrorExport)
        /\ last.err = ERROR_CODE_CONN_BROKEN =>
               /\ Has(last.exports, ShutdownExport)
               /\ last.kind = "raise"
               /\ last.exc = "ArxControlShutdownError"

\* the documented limit of each argument in last.input (0: none claimed)
ClaimedLimits(method) ==
    CASE method \in {"add_string_as"} -> <<0, 256, 0>>
      [] method = "set_index" -> <<256>>
      [] method = "add_file_as" -> <<256, 256, 0>>
      [] method = "add_content_as" -> <<256, 0>>
      [] method \in {"set_tag_property_by_id", "set_tag_propery_by_class"} ->
             <<128, 128, 0>>
      [] method \in {"set_tag_content_by_id", "set_tag_content_by_class"} ->
             <<128, 0>>
      [] OTHER -> <<>>

\* C4: an argument longer than its limit (256 for filenames and file
\* paths, 128 for tag ids, tag classes and property names) reaches the
\* export as its prefix of exactly the limit's length, with a warning; an
\* argument within its limit reaches it unchanged, with no warning
C4_TruncatedToClaimedLimit ==
    \A i \in 1..Len(ClaimedLimits(last.method)) :
        LET limit == ClaimedLimits(last.method)[i]
            given == last.input[i]
        IN limit > 0 =>
             IF Len(given) > limit
             THEN /\ last.passed[i] = Slice(given, limit)
                  /\ Len(last.passed[i]) = limit
                  /\ Warned(given)
             ELSE /\ last.passed[i] = given
                  /\ ~Warned(given)

\* C5: __enter__ whose init() returns a falsy result raises
\* ArxControlError and the body never runs; the body runs only after an
\* init() that returned a truthy result
C5_EnterFailsFast ==
    /\ (scope.st \in {"body", "unwinding", "exited"} \/ scope.body_ran) =>
           (scope.init_kind = "return" /\ scope.init_value # 0)
    /\ (scope.init_kind = "return" /\ scope.init_value = 0) =>
           /\ scope.st = "enter_failed"
           /\ scope.propagated = "ArxControlError"
           /\ ~scope.body_ran

C5_Witness ==
    /\ scope.st = "enter_failed"
    /\ scope.init_kind = "return"
    /\ scope.init_value = 0
    /\ scope.propagated = "ArxControlError"
    /\ last.err = ERROR_CODE_SDK_NOT_INITIALIZED

\* C6: leaving an entered `with` block always invokes shutdown, after a
\* normal body and after a body that raised, and the body's exception goes
\* on; after a body that raised ArxControlShutdownError from a forwarding
\* call, that call had invoked shutdown once itself and __exit__ invokes it
\* once more
C6_ExitAlwaysShutsDown ==
    scope.st = "exited" =>
        /\ scope.exit_shutdowns = 1
        /\ scope.propagated = scope.pending
        /\ scope.pending = "ArxControlShutdownError" =>
               /\ scope.raise_shutdowns = 1
               /\ scope.raise_shutdowns + scope.exit_shutdowns = 2

C6_Witness ==
    /\ scope.st = "exited"
    /\ scope.pending = "ArxControlShutdownError"
    /\ scope.propagated = "ArxControlShutdownError"
    /\ scope.raise_shutdowns = 1
    /\ scope.exit_shutdowns = 1
    /\ last.method = "__exit__"
    /\ last.exports = <<ShutdownExport>>

\* C7: a forwarding call whose export returns zero with a last error other
\* than SDK_INITIALIZED and CONN_BROKEN returns a falsy result without
\* raising, does not invoke shutdown, logs a warning carrying the code,
\* and invoked its export exactly once
C7_OtherFailuresReturnedAndLogged ==
    FailedWith(Forwarding, FailureCodes \ {ERROR_CODE_SDK_INITIALIZED,
                                           ERROR_CODE_CONN_BROKEN}) =>
        /\ last.kind = "return"
        /\ last.value = 0
        /\ ~Has(last.exports, ShutdownExport)
        /\ ErrorLogged(last.err)
        /\ Occurrences(last.exports, ExportOf(last.method)) = 1

\* the constructor was given no usable library path: no override and no
\* library at the default location, or an override that does not exist
NoValidPath ==
    \/ /\ Falsy(ctor.dll_path)
       /\ ~ ( /\ env.ProgramW6432 \/ env.ProgramFiles
              /\ env.default_at # "absent" )
    \/ /\ ~Falsy(ctor.dll_path)
       /\ ~path_exists(ctor.dll_path, env)

\* C8: construction with no valid library path fails with the NotFound
\* error (FileNotFoundError), loads no library and creates no instance; a
\* supplied override path takes precedence over the default location
C8_NoValidPathIsNotFound ==
    ctor.called =>
        /\ NoValidPath =>
               /\ ctor.exc = "FileNotFoundError"
               /\ ctor.loaded = None
               /\ ~inst.constructed
        /\ ~Falsy(ctor.dll_path) => ctor.loaded \in {None, ctor.dll_path}

\* a constructor warning was logged for name
CtorWarned(name) ==
    \E i \in 1..Len(ctor.warnings) : ctor.warnings[i].text = name

\* C9 as stated: a name longer than 128 characters is stored, and passed
\* to the native init export, as its first 128 characters, with a warning
\* logged for each truncated name; shorter names are kept unchanged
C9_NamesTruncatedWithWarning ==
    inst.constructed =>
        /\ inst.app_name = Slice(ctor.app_name, 128)
        /\ inst.friendly_name = Slice(ctor.friendly_name, 128)
        /\ Len(ctor.app_name) > 128 => CtorWarned(ctor.app_name)
        /\ Len(ctor.friendly_name) > 128 => CtorWarned(ctor.friendly_name)

\* C10: in every state of the instance (before init(), during the wait of
\* an init(), after a failed init(), after shutdown(), after
\* ArxControlShutdownError, after the `with` block was left or failed to
\* enter) a forwarding method invokes its native export, and how the call
\* ends depends on the native return value and last-error code alone
C10_NoLifecycleGuard ==
    last.method \in Forwarding =>
        /\ Len(last.exports) >= 1
        /\ last.exports[1] = ExportOf(last.method)
        /\ IF FailedWith(Routed, {ERROR_CODE_CONN_BROKEN})
           THEN last.kind = "raise"
           ELSE last.kind = "return" /\ last.value = last.ret

\* a call made after ArxControlShutdownError had unwound the `with` block
\* and __exit__ had shut the session down (no call or exit in between, or
\* last would be that one): it reached its export and returned its result
C10_Witness ==
    /\ scope.st = "exited"
    /\ scope.pending = "ArxControlShutdownError"
    /\ phase = "shutdown"
    /\ last.method = "set_tag_content_by_id"
    /\ last.exports = <<ExportOf(last.method)>>
    /\ last.kind = "return"
    /\ last.value = 1

====
